---- MODULE Spec2Model ----
(***************************************************************************)
(* work-assistant: free text -> task in Asana or Microsoft Planner.        *)
(*                                                                         *)
(* The module holds four specifications over one set of variables:        *)
(*   SpecDue    extractDueDate   applied to bounded texts and clocks       *)
(*   SpecTitle  extractTaskTitle applied to bounded texts                  *)
(*   SpecClean  cleanEmailBody   applied to bounded texts                  *)
(*   Spec       handleTextToTask: the agent run, the two tools, the two    *)
(*              adapters and their HTTP calls                              *)
(*   SpecSchema TaskInputSchema applied to argument objects                *)
(*   SpecHealth GET /health under every environment                        *)
(*   SpecConc   tool invocations running concurrently, interleaved at      *)
(*              their awaits                                               *)
(***************************************************************************)
EXTENDS Integers, Sequences, FiniteSets, TLC

VARIABLES
    ptext,      \* parser input: the text handed to a parser function
    pnow,       \* parser input: the wall clock read by extractDueDate
    pout,       \* parser output
    pfun,       \* "idle" before the call, then the name of the function applied
    env,        \* process.env: which of the six settings are set (and non-empty)
    asanaTool,  \* agent.ts: the cached AsanaTool, or null
    plannerTool,\* agent.ts: the cached PlannerTool, or null
    hpc,        \* where handleTextToTask stands: "idle", "run", "tool", "done"
    platform,   \* handleTextToTask's second argument, "none" when left out
    backend,    \* handleTextToTask's local of that name
    newItems,   \* result.newItems: the tool_call_output_items of the agent run so far
    call,       \* the latest tool call: its tool, its arguments and where execute stands
    http,       \* the HTTP requests the latest tool call issued, each with its response
    result,     \* what handleTextToTask returned
    invocations,\* the tool invocations in flight together: tool, position, adapter in hand
    constructed,\* how many AsanaTool / PlannerTool instances the process has built
    health      \* the body GET /health answered with, with the requests it issued

pvars == <<ptext, pnow, pout, pfun>>

ovars == <<env, asanaTool, plannerTool, hpc, platform, backend, newItems, call, http, result,
           invocations, constructed, health>>

\* what handleTextToTask and its tool calls leave alone
xvars == <<invocations, constructed, health>>

vars == <<ptext, pnow, pout, pfun, env, asanaTool, plannerTool, hpc, platform, backend,
          newItems, call, http, result, invocations, constructed, health>>

Null == [kind |-> "null"]

(***************************************************************************)
(* Generic helpers                                                         *)
(***************************************************************************)
\* the orchestrator at rest, for the specifications of the parser functions
ParserOnly ==
    /\ env = [ASANA_TOKEN |-> FALSE, ASANA_PROJECT |-> FALSE, ASANA_SECTION |-> FALSE,
              GRAPH_TOKEN |-> FALSE, PLANNER_PLAN |-> FALSE, PLANNER_BUCKET |-> FALSE]
    /\ asanaTool = Null
    /\ plannerTool = Null
    /\ hpc = "idle"
    /\ platform = "none"
    /\ backend = "none"
    /\ newItems = <<>>
    /\ call = Null
    /\ http = <<>>
    /\ result = Null
    /\ invocations = <<>>
    /\ constructed = [asana |-> 0, planner |-> 0]
    /\ health = Null

SetMin(S) == CHOOSE x \in S : \A y \in S : x <= y

SeqsUpTo(S, n) == UNION {[1..k -> S] : k \in 0..n}

(***************************************************************************)
(* extractDueDate (parsers, msgraph.ts 233-277)                            *)
(*                                                                         *)
(* A text is a sequence of words, separated by single blanks.  The source  *)
(* matches regular expressions on characters; on whitespace-separated      *)
(* words \s+ is the gap between two adjacent words.                        *)
(***************************************************************************)
MaxWords == 4

Words == {"Next", "friday", "monday", "Tomorrow", "in", "2", "days",
          "2024-01-20", "2025-12-31"}

\* String.prototype.toLowerCase / the regular expressions' i flag, on the vocabulary
toLowerCase(w) ==
    CASE w = "Next" -> "next"
      [] w = "Tomorrow" -> "tomorrow"
      [] OTHER -> w

\* dayMap: Object.entries visits the keys in insertion order
dayNames == <<"monday", "tuesday", "wednesday", "thursday", "friday", "saturday", "sunday">>

dayMap(day) ==
    CASE day = "monday" -> 1
      [] day = "tuesday" -> 2
      [] day = "wednesday" -> 3
      [] day = "thursday" -> 4
      [] day = "friday" -> 5
      [] day = "saturday" -> 6
      [] day = "sunday" -> 0

\* A Date is [local |-> the calendar day in the process's time zone (days since
\* 1970-01-01), shift |-> the UTC calendar day minus the local calendar day at that
\* instant (-1, 0 or 1, fixed by the zone offset and the time of day)].
\* Date.prototype.getDay: the weekday in local time; 1970-01-01 was a Thursday.
getDay(date) == (date.local + 4) % 7

\* targetDate.setDate(now.getDate() + n): n local calendar days later, same local time of day
setDate(date, n) == [local |-> date.local + n, shift |-> date.shift]

\* toISOString().split('T')[0]: the UTC calendar day of the instant
toISODate(date) == [kind |-> "date", day |-> date.local + date.shift]

\* new RegExp(`next\\s+${day}`, 'i').test(text)
nextDayTest(text, day) ==
    \E i \in 1..(Len(text) - 1) :
        toLowerCase(text[i]) = "next" /\ toLowerCase(text[i + 1]) = day

isDigits(w) == w \in {"2"}

parseInt(w) == CASE w = "2" -> 2 [] OTHER -> 0

\* positions where /in\s+(\d+)\s+days?/i matches
daysMatch(text) ==
    {i \in 1..(Len(text) - 2) :
        /\ toLowerCase(text[i]) = "in"
        /\ isDigits(text[i + 1])
        /\ toLowerCase(text[i + 2]) \in {"day", "days"}}

\* positions where /\b(\d{4}-\d{2}-\d{2})\b/ matches
dateMatch(text) == {i \in 1..Len(text) : text[i] \in {"2024-01-20", "2025-12-31"}}

extractDueDate_TomorrowFirst(text, now) ==
    LET hits == {k \in 1..7 : nextDayTest(text, dayNames[k])} IN
    IF \E i \in 1..Len(text) : toLowerCase(text[i]) = "tomorrow"
    THEN toISODate(setDate(now, 1))
    ELSE IF hits # {}
    THEN toISODate(setDate(now, (dayMap(dayNames[SetMin(hits)]) - getDay(now) + 7) % 7))
    ELSE IF daysMatch(text) # {}
    THEN toISODate(setDate(now, parseInt(text[SetMin(daysMatch(text)) + 1])))
    ELSE IF dateMatch(text) # {}
    THEN [kind |-> "literal", text |-> text[SetMin(dateMatch(text))]]
    ELSE Null

extractDueDate_DaysFirst(text, now) ==
    LET hits == {k \in 1..7 : nextDayTest(text, dayNames[k])} IN
    IF hits # {}
    THEN toISODate(setDate(now, (dayMap(dayNames[SetMin(hits)]) - getDay(now) + 7) % 7))
    ELSE IF daysMatch(text) # {}
    THEN toISODate(setDate(now, parseInt(text[SetMin(daysMatch(text)) + 1])))
    ELSE IF \E i \in 1..Len(text) : toLowerCase(text[i]) = "tomorrow"
    THEN toISODate(setDate(now, 1))
    ELSE IF dateMatch(text) # {}
    THEN [kind |-> "literal", text |-> text[SetMin(dateMatch(text))]]
    ELSE Null

extractDueDate(text, now) ==
    LET \* for (const [day, dayNum] of Object.entries(dayMap)): the first day that tests true
        hits == {k \in 1..7 : nextDayTest(text, dayNames[k])}
    IN
    IF hits # {}
    THEN LET dayNum == dayMap(dayNames[SetMin(hits)])
             daysUntilNext == (dayNum - getDay(now) + 7) % 7
         IN toISODate(setDate(now, daysUntilNext))
    ELSE IF \E i \in 1..Len(text) : toLowerCase(text[i]) = "tomorrow"
    THEN toISODate(setDate(now, 1))
    ELSE IF daysMatch(text) # {}
    THEN toISODate(setDate(now, parseInt(text[SetMin(daysMatch(text)) + 1])))
    ELSE IF dateMatch(text) # {}
    THEN [kind |-> "literal", text |-> text[SetMin(dateMatch(text))]]
    ELSE Null

DueTexts == SeqsUpTo(Words, MaxWords)

Clocks == [local : 10..16, shift : {-1, 0, 1}]

InitDue ==
    /\ ParserOnly
    /\ ptext \in DueTexts
    /\ pnow \in Clocks
    /\ pout = Null
    /\ pfun = "idle"

CallExtractDueDate ==
    /\ pfun = "idle"
    /\ pout' = extractDueDate(ptext, pnow)
    /\ pfun' = "extractDueDate"
    /\ UNCHANGED <<ptext, pnow>>
    /\ UNCHANGED ovars

NextDue == CallExtractDueDate

SpecDue == InitDue /\ [][NextDue]_vars

(***************************************************************************)
(* Vocabulary of the extractDueDate claims.  "Today" is the calendar date  *)
(* the function itself renders for the clock it read (the UTC date of      *)
(* now); a returned date's weekday is the weekday of that calendar date.   *)
(***************************************************************************)
Today == pnow.local + pnow.shift

WeekdayOf(day) == (day + 4) % 7

\* the weekdays d for which the text holds "next d", in any case
NamedAfterNext ==
    {k \in 1..7 : \E i \in 1..(Len(ptext) - 1) :
        toLowerCase(ptext[i]) = "next" /\ toLowerCase(ptext[i + 1]) = dayNames[k]}

ContainsTomorrow == \E i \in 1..Len(ptext) : toLowerCase(ptext[i]) = "tomorrow"

\* the positions at which the text holds "in N days"
InDaysAt ==
    {i \in 1..(Len(ptext) - 2) :
        ptext[i] = "in" /\ isDigits(ptext[i + 1]) /\ ptext[i + 2] = "days"}

\* the number the word at position i writes
NumberAt(i) == parseInt(ptext[i])

LiteralAt == {i \in 1..Len(ptext) : ptext[i] \in {"2024-01-20", "2025-12-31"}}

DueDone == pfun = "extractDueDate"

\* C6 (as claimed): for a text containing "next <weekday>" the result falls on the
\* named weekday and is 1 to 7 days after today, 7 when today is that weekday.
\* Stated for the clocks whose local and UTC calendar dates agree, where "today"
\* and the weekday of the result have one reading only.
C6_NextWeekdayStrictlyAfter ==
    (DueDone /\ pnow.shift = 0 /\ NamedAfterNext # {}) =>
        /\ pout.kind = "date"
        /\ \E k \in NamedAfterNext :
              /\ WeekdayOf(pout.day) = dayMap(dayNames[k])
              /\ pout.day - Today \in 1..7
              /\ (WeekdayOf(Today) = dayMap(dayNames[k]) => pout.day - Today = 7)

\* C7 (as claimed): for a text containing "tomorrow" the result is today + 1,
\* whatever other date pattern the text holds.
C7_TomorrowRegardless ==
    (DueDone /\ ContainsTomorrow) => pout = [kind |-> "date", day |-> Today + 1]

\* C7 (amended): for a text containing "tomorrow" and no "next <weekday>", the
\* result is today + 1, whatever "in N days" or literal date the text holds.
C7_TomorrowUnlessNextWeekday ==
    (DueDone /\ ContainsTomorrow /\ NamedAfterNext = {}) =>
        pout = [kind |-> "date", day |-> Today + 1]

C7_Witness ==
    /\ DueDone /\ ContainsTomorrow /\ NamedAfterNext = {}
    /\ InDaysAt # {}
    /\ pout = [kind |-> "date", day |-> Today + 1]

\* C8: the result is that of the highest-priority class that matches, in the order
\* "next <weekday>" > "tomorrow" > "in N days" (today + N) > literal YYYY-MM-DD (the
\* first one, unchanged); it is none exactly when no class matches.
C8_PriorityOrder ==
    DueDone =>
        /\ NamedAfterNext # {} =>
              \* a date computed for a weekday the text names (in the process's calendar)
              /\ pout.kind = "date"
              /\ \E k \in NamedAfterNext :
                    WeekdayOf(pout.day - pnow.shift) = dayMap(dayNames[k])
        /\ (NamedAfterNext = {} /\ ContainsTomorrow) =>
              pout = [kind |-> "date", day |-> Today + 1]
        /\ (NamedAfterNext = {} /\ ~ContainsTomorrow /\ InDaysAt # {}) =>
              pout = [kind |-> "date", day |-> Today + NumberAt(SetMin(InDaysAt) + 1)]
        /\ (NamedAfterNext = {} /\ ~ContainsTomorrow /\ InDaysAt = {} /\ LiteralAt # {}) =>
              /\ pout.kind = "literal"
              /\ pout.text = ptext[SetMin(LiteralAt)]
        /\ (pout = Null) <=>
              (NamedAfterNext = {} /\ ~ContainsTomorrow /\ InDaysAt = {} /\ LiteralAt = {})

\* every class is present in the text and the highest one decided
C8_Witness ==
    /\ DueDone
    /\ NamedAfterNext # {} /\ ContainsTomorrow /\ LiteralAt # {}
    /\ pout.kind = "date"
    /\ pout.day # Today + 1

(***************************************************************************)
(* Character strings: a string is a sequence of one-character strings.     *)
(***************************************************************************)
lowerAlphabet == <<"a", "b", "c", "d", "e", "f", "g", "h", "i", "j", "k", "l", "m", "n", "o", "p", "q", "r", "s", "t", "u", "v", "w", "x", "y", "z">>

upperAlphabet == <<"A", "B", "C", "D", "E", "F", "G", "H", "I", "J", "K", "L", "M", "N", "O", "P", "Q", "R", "S", "T", "U", "V", "W", "X", "Y", "Z">>

charToLower(c) ==
    IF \E i \in 1..26 : upperAlphabet[i] = c
    THEN lowerAlphabet[CHOOSE i \in 1..26 : upperAlphabet[i] = c]
    ELSE c

charToUpper(c) ==
    IF \E i \in 1..26 : lowerAlphabet[i] = c
    THEN upperAlphabet[CHOOSE i \in 1..26 : lowerAlphabet[i] = c]
    ELSE c

strToLower(s) == [i \in 1..Len(s) |-> charToLower(s[i])]

\* \s, and what String.prototype.trim removes, on the alphabet of the model
isSpace(c) == c \in {" ", "\n"}

\* String.prototype.trim
trim(s) ==
    LET keep == {i \in 1..Len(s) : ~isSpace(s[i])} IN
    IF keep = {} THEN <<>>
    ELSE SubSeq(s, SetMin(keep), CHOOSE j \in keep : \A i \in keep : i <= j)

\* String.prototype.startsWith
startsWith(s, prefix) ==
    Len(s) >= Len(prefix) /\ SubSeq(s, 1, Len(prefix)) = prefix

\* s.substring(n) / s.slice(n), 0 <= n
substring(s, n) == SubSeq(s, n + 1, Len(s))

RECURSIVE Concat(_)
Concat(ss) == IF ss = <<>> THEN <<>> ELSE Head(ss) \o Concat(Tail(ss))

(***************************************************************************)
(* extractTaskTitle (parsers, msgraph.ts 321-343)                          *)
(***************************************************************************)
prefixes == <<
    <<"f", "o", "l", "l", "o", "w", " ", "u", "p", " ", "w", "i", "t", "h">>,
    <<"r", "e", "m", "i", "n", "d", " ", "m", "e", " ", "t", "o">>,
    <<"s", "c", "h", "e", "d", "u", "l", "e">>,
    <<"c", "r", "e", "a", "t", "e", " ", "t", "a", "s", "k", " ", "f", "o", "r">>,
    <<"a", "d", "d", " ", "t", "a", "s", "k", ":">>,
    <<"t", "a", "s", "k", ":">> >>

\* the loop without its break: every later prefix is tried on what is left
RECURSIVE stripPrefixes_NoBreak(_, _)
stripPrefixes_NoBreak(title, k) ==
    IF k > Len(prefixes) THEN title
    ELSE IF startsWith(strToLower(title), prefixes[k])
         THEN stripPrefixes_NoBreak(trim(substring(title, Len(prefixes[k]))), k + 1)
         ELSE stripPrefixes_NoBreak(title, k + 1)

\* for (const prefix of prefixes) { if (...startsWith(prefix)) { ...; break; } }, from entry k on
RECURSIVE stripPrefixes(_, _)
stripPrefixes(title, k) ==
    IF k > Len(prefixes) THEN title
    ELSE IF startsWith(strToLower(title), prefixes[k])
         THEN trim(substring(title, Len(prefixes[k])))
         ELSE stripPrefixes(title, k + 1)

extractTaskTitle(text) ==
    LET title == stripPrefixes(trim(text), 1) IN
    \* title.charAt(0).toUpperCase() + title.slice(1)
    IF title = <<>> THEN <<>> ELSE <<charToUpper(title[1])>> \o substring(title, 1)

MaxPieces == 3

TitlePieces == {
    <<"F", "o", "l", "l", "o", "w", " ", "u", "p", " ", "w", "i", "t", "h">>,
    <<"R", "E", "M", "I", "N", "D", " ", "M", "E", " ", "T", "O">>,
    <<"s", "c", "h", "e", "d", "u", "l", "e">>,
    <<"C", "r", "e", "a", "t", "e", " ", "t", "a", "s", "k", " ", "f", "o", "r">>,
    <<"a", "d", "d", " ", "t", "a", "s", "k", ":">>,
    <<"T", "a", "s", "k", ":">>,
    <<" ">>,
    <<"d">>,
    <<"b", "u", "y", " ", "M", "i", "l", "k">> }

TitleTexts == {Concat(ps) : ps \in SeqsUpTo(TitlePieces, MaxPieces)}

InitTitle ==
    /\ ParserOnly
    /\ ptext \in TitleTexts
    /\ pnow = Null
    /\ pout = Null
    /\ pfun = "idle"

CallExtractTaskTitle ==
    /\ pfun = "idle"
    /\ pout' = extractTaskTitle(ptext)
    /\ pfun' = "extractTaskTitle"
    /\ UNCHANGED <<ptext, pnow>>
    /\ UNCHANGED ovars

NextTitle == CallExtractTaskTitle

SpecTitle == InitTitle /\ [][NextTitle]_vars

(***************************************************************************)
(* Vocabulary of the extractTaskTitle claim                                *)
(***************************************************************************)
\* s without its leading and trailing blanks
Trimmed(s) ==
    IF \A i \in 1..Len(s) : isSpace(s[i]) THEN <<>>
    ELSE LET a == CHOOSE i \in 1..Len(s) : ~isSpace(s[i]) /\ \A j \in 1..(i - 1) : isSpace(s[j])
             b == CHOOSE i \in 1..Len(s) : ~isSpace(s[i]) /\ \A j \in (i + 1)..Len(s) : isSpace(s[j])
         IN [i \in 1..(b - a + 1) |-> s[a + i - 1]]

\* s with its first character upper-cased
Capitalized(s) == [i \in 1..Len(s) |-> IF i = 1 THEN charToUpper(s[i]) ELSE s[i]]

\* the list entries the trimmed text starts with, case-insensitively
MatchingPrefixes ==
    {k \in 1..Len(prefixes) :
        /\ Len(Trimmed(ptext)) >= Len(prefixes[k])
        /\ \A i \in 1..Len(prefixes[k]) : charToLower(Trimmed(ptext)[i]) = prefixes[k][i]}

\* the trimmed text after its first n characters
Remainder(n) == [i \in 1..(Len(Trimmed(ptext)) - n) |-> Trimmed(ptext)[n + i]]

TitleDone == pfun = "extractTaskTitle"

\* C9: extractTaskTitle strips at most one prefix, the first list entry the trimmed
\* text starts with (case-insensitive), then trims the remainder and upper-cases its
\* first character; with no matching entry the result is the trimmed text with its
\* first character upper-cased.
C9_StripsFirstMatchingPrefixOnce ==
    TitleDone =>
        IF MatchingPrefixes = {}
        THEN pout = Capitalized(Trimmed(ptext))
        ELSE pout = Capitalized(Trimmed(Remainder(Len(prefixes[SetMin(MatchingPrefixes)]))))

\* a prefix was stripped and what is left starts with a list entry again, which stays
C9_Witness ==
    /\ TitleDone
    /\ MatchingPrefixes # {}
    /\ \E k \in 1..Len(prefixes) : startsWith(strToLower(pout), prefixes[k])
    /\ Len(pout) > 5

(***************************************************************************)
(* cleanEmailBody (parsers, msgraph.ts 306-316)                            *)
(*                                                                         *)
(* The characters of the model: '>', blank, newline, '-', a letter, and    *)
(* the words "On" and "wrote:" of the reply header, each taken as a unit.  *)
(***************************************************************************)
MaxLen == 5

CleanChars == {">", " ", "\n", "-", "a", "On", "wrote:"}

\* the lines of s: the pieces between its newlines
RECURSIVE splitLines(_)
splitLines(s) ==
    IF \A i \in 1..Len(s) : s[i] # "\n" THEN <<s>>
    ELSE LET n == SetMin({i \in 1..Len(s) : s[i] = "\n"})
         IN <<SubSeq(s, 1, n - 1)>> \o splitLines(SubSeq(s, n + 1, Len(s)))

RECURSIVE joinLines(_)
joinLines(ls) ==
    IF Len(ls) = 1 THEN ls[1] ELSE ls[1] \o <<"\n">> \o joinLines(Tail(ls))

\* .replace(/--\s*\n.*$/s, ''): from the leftmost "--" that blanks and then a newline
\* follow, everything up to the end of the string goes
removeSignature(s) ==
    LET at == {i \in 1..(Len(s) - 2) :
                  /\ s[i] = "-" /\ s[i + 1] = "-"
                  /\ \E j \in (i + 2)..Len(s) :
                        /\ s[j] = "\n"
                        /\ \A m \in (i + 2)..(j - 1) : isSpace(s[m])}
    IN IF at = {} THEN s ELSE SubSeq(s, 1, SetMin(at) - 1)

\* .replace(/^On.*wrote:$/m, ''): the first line that starts with On and ends with wrote:
removeReplyHeader(s) ==
    LET ls == splitLines(s)
        at == {k \in 1..Len(ls) :
                  Len(ls[k]) >= 2 /\ ls[k][1] = "On" /\ ls[k][Len(ls[k])] = "wrote:"}
    IN IF at = {} THEN s
       ELSE joinLines([k \in 1..Len(ls) |-> IF k = SetMin(at) THEN <<>> ELSE ls[k]])

\* .replace(/^>.*$/gm, ''): every line that starts with '>' is emptied
removeQuotedLines(s) ==
    LET ls == splitLines(s)
    IN joinLines([k \in 1..Len(ls) |->
                     IF Len(ls[k]) >= 1 /\ ls[k][1] = ">" THEN <<>> ELSE ls[k]])

\* .replace(/\n{3,}/g, '\n\n'): of a run of newlines the third and later ones go
RECURSIVE collapseNewlines(_)
collapseNewlines(s) ==
    IF s = <<>> THEN <<>>
    ELSE LET n == Len(s)
             init == collapseNewlines(SubSeq(s, 1, n - 1))
         IN IF n >= 3 /\ s[n] = "\n" /\ s[n - 1] = "\n" /\ s[n - 2] = "\n"
            THEN init
            ELSE Append(init, s[n])

cleanEmailBody(emailBody) ==
    trim(collapseNewlines(removeQuotedLines(removeReplyHeader(removeSignature(emailBody)))))

CleanTexts == SeqsUpTo(CleanChars, MaxLen)

InitClean ==
    /\ ParserOnly
    /\ ptext \in CleanTexts
    /\ pnow = Null
    /\ pout = Null
    /\ pfun = "idle"

CallCleanEmailBody ==
    /\ pfun = "idle"
    /\ pout' = cleanEmailBody(ptext)
    /\ pfun' = "cleanEmailBody"
    /\ UNCHANGED <<ptext, pnow>>
    /\ UNCHANGED ovars

NextClean == CallCleanEmailBody

SpecClean == InitClean /\ [][NextClean]_vars

CleanDone == pfun = "cleanEmailBody"

\* position i of s is the first of a line
LineStart(s, i) == i = 1 \/ s[i - 1] = "\n"

\* position i of s is the last of a line
LineEnd(s, i) == i = Len(s) \/ s[i + 1] = "\n"

NoQuotedLine(s) == \A i \in 1..Len(s) : ~(s[i] = ">" /\ LineStart(s, i))

NoNewlineRun(s) ==
    \A i \in 1..(Len(s) - 2) : ~(s[i] = "\n" /\ s[i + 1] = "\n" /\ s[i + 2] = "\n")

NoOuterSpace(s) == s = <<>> \/ (~isSpace(s[1]) /\ ~isSpace(s[Len(s)]))

\* no line of s consists of "--"
NoSignatureLine(s) ==
    \A i \in 1..(Len(s) - 1) :
        ~(s[i] = "-" /\ s[i + 1] = "-" /\ LineStart(s, i) /\ LineEnd(s, i + 1))

\* C10 (as claimed): the output of cleanEmailBody has no line beginning with '>', no
\* run of three or more newlines, no leading or trailing whitespace, and nothing
\* from a line consisting of "--" onwards.
C10_CleanOutput ==
    CleanDone =>
        /\ NoQuotedLine(pout)
        /\ NoNewlineRun(pout)
        /\ NoOuterSpace(pout)
        /\ NoSignatureLine(pout)

\* C10 (as claimed), first part: no line of the output begins with '>'.
C10_OutputNoQuotedLine == CleanDone => NoQuotedLine(pout)

\* C10 (as claimed), last part: the output holds no line consisting of "--".
C10_OutputNoSignatureLine == CleanDone => NoSignatureLine(pout)

(***************************************************************************)
(* The orchestrator: handleTextToTask, the agent run, the two tools and    *)
(* the two adapters (agent.ts; asana and msgraph, msgraph.ts).             *)
(***************************************************************************)
MaxToolCalls == 2

Some(x) == [kind |-> "some", value |-> x]

\* what a call that can throw comes to
Return(v) == [threw |-> FALSE, value |-> v, error |-> Null]

Throw(e) == [threw |-> TRUE, value |-> Null, error |-> e]

\* An Error, by what its message holds: the prefix a catch block put before it
\* ("" when none), its own text, and the HTTP status (0 when none) and the response
\* body ("none" when none) written into it.
Error(text, status, body) ==
    [kind |-> "error", wrap |-> "", text |-> text, status |-> status, body |-> body]

\* TaskInput: the arguments of a tool call.  typed says whether every field has the
\* type the schema names for it (string, array of strings, or null); of the
\* arguments that have not, one stands for all.  A due date is null, or a string
\* that new Date() cannot read (one it can read changes the payload only).
TaskInputs ==
    [title : {"", " ", "Buy milk"},
     description : {Null, Some("D")},
     dueDate : {Null, Some("soon")},
     links : {Null, Some(<<>>), Some(<<"L">>)},
     typed : {TRUE}]
    \cup {[title |-> "Buy milk", description |-> Null, dueDate |-> Null,
           links |-> Null, typed |-> FALSE]}

\* TaskInputSchema.safeParse(input).success: title is z.string().min(1), the other
\* fields are nullable
TaskInputSchema_AnyTitle(input) == input.typed

TaskInputSchema(input) == input.typed /\ input.title # ""

\* a JavaScript truthiness test of a nullable string
truthy(field) == field # Null /\ field.value # ""

\* An HTTP exchange as fetch settles it: a response with a status and a body that
\* is JSON or not, or a rejection (the request never got an answer).
Responses ==
    [kind : {"http"}, status : {201, 500}, json : BOOLEAN]
        \cup {[kind |-> "neterr", status |-> 0, json |-> FALSE]}

Pending == [kind |-> "pending", status |-> 0, json |-> FALSE]

\* response.ok
ok(resp) == resp.kind = "http" /\ resp.status >= 200 /\ resp.status <= 299

\* the last request of the log gets its response
settle(log, resp) == [log EXCEPT ![Len(log)].resp = resp]

Envs ==
    [ASANA_TOKEN : BOOLEAN, ASANA_PROJECT : BOOLEAN, ASANA_SECTION : BOOLEAN,
     GRAPH_TOKEN : BOOLEAN, PLANNER_PLAN : BOOLEAN, PLANNER_BUCKET : BOOLEAN]

\* the selector with its two tests in the other order
pickBackend_PlannerFirst ==
    LET hasAsana == env.ASANA_TOKEN /\ env.ASANA_PROJECT
        hasPlanner == env.GRAPH_TOKEN /\ env.PLANNER_PLAN
    IN IF hasPlanner THEN "planner" ELSE IF hasAsana THEN "asana" ELSE "asana"

pickBackend ==
    LET hasAsana == env.ASANA_TOKEN /\ env.ASANA_PROJECT
        hasPlanner == env.GRAPH_TOKEN /\ env.PLANNER_PLAN
    IN IF hasAsana THEN "asana" ELSE IF hasPlanner THEN "planner" ELSE "asana"

createAsanaTool ==
    LET config == [token |-> env.ASANA_TOKEN, project |-> env.ASANA_PROJECT,
                   section |-> env.ASANA_SECTION]
    IN IF ~config.token \/ ~config.project
       THEN Throw(Error("Missing required Asana configuration", 0, "none"))
       ELSE Return(config)

createPlannerTool ==
    LET config == [token |-> env.GRAPH_TOKEN, planId |-> env.PLANNER_PLAN,
                   bucketId |-> env.PLANNER_BUCKET]
    IN IF ~config.token \/ ~config.planId
       THEN Throw(Error("Missing required Planner configuration", 0, "none"))
       ELSE Return(config)

getAsanaTool == IF asanaTool = Null THEN createAsanaTool ELSE Return(asanaTool)

getPlannerTool == IF plannerTool = Null THEN createPlannerTool ELSE Return(plannerTool)

\* catch (error) { throw new Error(`Failed to create ... task: ${error.message}`) }
wrapError(prefix, e) == [e EXCEPT !.wrap = prefix]

\* createAsanaTask, from the settling of its fetch to the task: the task's permalink
asanaCreateSettled(resp) ==
    IF resp.kind = "neterr" THEN Throw(Error("request failed", 0, "none"))
    ELSE IF ~ok(resp)
    THEN \* const errorData = await response.json(); throw new Error(status, errorData)
         IF resp.json THEN Throw(Error("Asana API error", resp.status, "body"))
         ELSE Throw(Error("invalid json response body", 0, "none"))
    ELSE IF resp.json THEN Return("permalink_url")
         ELSE Throw(Error("invalid json response body", 0, "none"))

\* createPlannerTask, from the settling of its creation fetch to the task: its web URL
plannerCreateSettled(resp) ==
    IF resp.kind = "neterr" THEN Throw(Error("request failed", 0, "none"))
    ELSE IF ~ok(resp)
    THEN IF resp.json THEN Throw(Error("Microsoft Graph API error", resp.status, "body"))
         ELSE Throw(Error("invalid json response body", 0, "none"))
    ELSE IF resp.json THEN Return("webUrl")
         ELSE Throw(Error("invalid json response body", 0, "none"))

\* the secondary call lets its failure through
moveTaskToSection_Throws(resp) ==
    IF resp.kind = "neterr" THEN Throw(Error("request failed", 0, "none"))
    ELSE IF ~ok(resp) THEN Throw(Error("Failed to move task to section", resp.status, "none"))
    ELSE Return(Null)

\* moveTaskToSection, from the settling of its fetch: a rejection is caught and
\* warned about, a non-2xx response is warned about, and the method returns
moveTaskToSection(resp) ==
    IF resp.kind = "neterr" THEN Return(Null)
    ELSE IF ~ok(resp) THEN Return(Null)
    ELSE Return(Null)

\* updateTaskDetails, from the settling of its fetch: as moveTaskToSection
updateTaskDetails(resp) ==
    IF resp.kind = "neterr" THEN Return(Null)
    ELSE IF ~ok(resp) THEN Return(Null)
    ELSE Return(Null)

\* updateTaskDetails, up to its fetch: the description it would send
detailsDescription(input) ==
    LET description == IF truthy(input.description) THEN <<input.description.value>> ELSE <<>>
    IN IF input.links # Null /\ Len(input.links.value) > 0
       THEN description \o <<"Links:">> \o input.links.value
       ELSE description

\* getPlan, from the settling of its fetch: the plan, by whether it has a default bucket
getPlan(resp, hasDefaultBucket) ==
    IF resp.kind = "neterr" THEN Throw(Error("request failed", 0, "none"))
    ELSE IF ~ok(resp) THEN Throw(Error("Failed to get plan", resp.status, "none"))
    ELSE IF resp.json THEN Return([defaultBucketId |-> hasDefaultBucket])
         ELSE Throw(Error("invalid json response body", 0, "none"))

\* createPlannerTask between the plan and the creation fetch: the bucket, the due date
plannerTaskData(plan, input) ==
    LET bucketId == plannerTool.bucketId \/ plan.defaultBucketId
    IN IF ~bucketId
       THEN Throw(Error("No bucket ID specified and plan has no default bucket", 0, "none"))
       ELSE IF truthy(input.dueDate) /\ input.dueDate.value = "soon"
       THEN \* new Date(input.dueDate).toISOString() of an invalid date
            Throw(Error("Invalid time value", 0, "none"))
       ELSE Return([bucketId |-> TRUE])

\* the execute functions of the two tools: the JSON string they return
toolOutput(name, outcome) ==
    IF outcome.threw
    THEN [kind |-> "json", success |-> FALSE, backend |-> name, taskUrl |-> Null,
          error |-> outcome.error, message |-> "Failed to create task"]
    ELSE [kind |-> "json", success |-> TRUE, backend |-> name,
          taskUrl |-> Some(outcome.value), error |-> Null,
          message |-> "Task created successfully"]

\* what the agents SDK hands the model when the arguments fail the tool's parameters
\* schema: a plain sentence, and execute is not run
invalidInputOutput ==
    [kind |-> "text", success |-> FALSE, backend |-> "none", taskUrl |-> Null,
     error |-> Null, message |-> "An error occurred while running the tool"]

\* handleTextToTask after the run, taking the first tool output that parses, with or
\* without a taskUrl
handleResult_AnyToolResult(items) ==
    LET found == {k \in 1..Len(items) : items[k].output.kind = "json"}
    IN IF found = {}
       THEN [success |-> FALSE, backend |-> backend, taskUrl |-> Null,
             message |-> "Task processing completed", error |-> Null]
       ELSE LET toolResult == items[SetMin(found)].output
            IN [success |-> (toolResult.success \/ TRUE), backend |-> backend,
                taskUrl |-> toolResult.taskUrl, message |-> toolResult.message,
                error |-> Null]

\* handleTextToTask after the run: the first tool output that parses and has a taskUrl
handleResult(items) ==
    LET found == {k \in 1..Len(items) :
                     items[k].output.kind = "json" /\ items[k].output.taskUrl # Null}
    IN IF found = {}
       THEN [success |-> FALSE, backend |-> backend, taskUrl |-> Null,
             message |-> "Task processing completed", error |-> Null]
       ELSE LET toolResult == items[SetMin(found)].output
            IN [success |-> (toolResult.success \/ TRUE), backend |-> backend,
                taskUrl |-> toolResult.taskUrl, message |-> toolResult.message,
                error |-> Null]

\* handleTextToTask's catch block
handleError(e) ==
    [success |-> FALSE, backend |-> pickBackend, taskUrl |-> Null,
     message |-> "Error processing task", error |-> e]

Init ==
    /\ ptext = <<>> /\ pnow = Null /\ pout = Null /\ pfun = "idle"
    /\ env \in Envs
    /\ asanaTool = Null
    /\ plannerTool = Null
    /\ hpc = "idle"
    /\ platform = "none"
    /\ backend = "none"
    /\ newItems = <<>>
    /\ call = Null
    /\ http = <<>>
    /\ result = Null
    /\ invocations = <<>>
    /\ constructed = [asana |-> 0, planner |-> 0]
    /\ health = Null

\* handleTextToTask(text, platform) up to its await of run(assistant, prompt)
Request(p) ==
    /\ hpc = "idle"
    /\ platform' = p
    /\ backend' = IF p # "none" THEN p ELSE pickBackend
    /\ hpc' = "run"
    /\ newItems' = <<>>
    /\ call' = Null
    /\ http' = <<>>
    /\ result' = Null
    /\ UNCHANGED <<env, asanaTool, plannerTool, pvars, xvars>>

\* the tool's execute returns: its output joins the run's items
Finish(output) ==
    /\ newItems' = Append(newItems, [tool |-> call.tool, output |-> output])
    /\ call' = Null
    /\ hpc' = "run"

\* the model asks for a tool with arguments of its choosing
AgentCallsTool(tool, input) ==
    /\ hpc = "run"
    /\ Len(newItems) < MaxToolCalls
    /\ call' = [tool |-> tool, input |-> input, at |-> "invoke"]
    /\ hpc' = "tool"
    /\ http' = <<>>
    /\ UNCHANGED <<env, asanaTool, plannerTool, platform, backend, newItems, result, pvars, xvars>>

\* the SDK invokes the tool: it checks the arguments against the tool's parameters
\* (TaskInputSchema, strict) and runs execute only when they pass
ToolInvoke ==
    /\ hpc = "tool" /\ call.at = "invoke"
    /\ IF TaskInputSchema(call.input)
       THEN /\ call' = [call EXCEPT !.at = "execute"]
            /\ UNCHANGED <<hpc, newItems>>
       ELSE Finish(invalidInputOutput)
    /\ UNCHANGED <<env, asanaTool, plannerTool, platform, backend, http, result, pvars, xvars>>

\* asana.createTask's execute: getAsanaTool(), then createAsanaTask up to its fetch
AsanaExecute ==
    /\ hpc = "tool" /\ call.tool = "asana" /\ call.at = "execute"
    /\ LET got == getAsanaTool IN
       IF got.threw
       THEN /\ Finish(toolOutput("asana", got))
            /\ UNCHANGED <<asanaTool, http>>
       ELSE /\ asanaTool' = got.value
            /\ http' = <<[op |-> "asana.createTask", resp |-> Pending]>>
            /\ call' = [call EXCEPT !.at = "awaitCreate"]
            /\ UNCHANGED <<hpc, newItems>>
    /\ UNCHANGED <<env, plannerTool, platform, backend, result, pvars, xvars>>

\* createAsanaTask sending the creation request a second time when the first failed
AsanaCreateResponse_RetryOnce(resp) ==
    /\ hpc = "tool" /\ call.tool = "asana" /\ call.at = "awaitCreate"
    /\ LET task == asanaCreateSettled(resp) IN
       IF task.threw /\ Len(http) < 2
       THEN /\ http' = Append(settle(http, resp), [op |-> "asana.createTask", resp |-> Pending])
            /\ UNCHANGED <<hpc, newItems, call>>
       ELSE IF task.threw
       THEN /\ http' = settle(http, resp)
            /\ Finish(toolOutput("asana",
                   Throw(wrapError("Failed to create Asana task", task.error))))
       ELSE IF asanaTool.section
       THEN /\ http' = Append(settle(http, resp), [op |-> "asana.addTask", resp |-> Pending])
            /\ call' = [call EXCEPT !.at = "awaitMove"]
            /\ UNCHANGED <<hpc, newItems>>
       ELSE /\ http' = settle(http, resp)
            /\ Finish(toolOutput("asana", task))
    /\ UNCHANGED <<env, asanaTool, plannerTool, platform, backend, result, pvars, xvars>>

\* createAsanaTask from the creation response to its next await or its end
AsanaCreateResponse(resp) ==
    /\ hpc = "tool" /\ call.tool = "asana" /\ call.at = "awaitCreate"
    /\ LET task == asanaCreateSettled(resp) IN
       IF task.threw
       THEN /\ http' = settle(http, resp)
            /\ Finish(toolOutput("asana",
                   Throw(wrapError("Failed to create Asana task", task.error))))
       ELSE IF asanaTool.section
       THEN /\ http' = Append(settle(http, resp), [op |-> "asana.addTask", resp |-> Pending])
            /\ call' = [call EXCEPT !.at = "awaitMove"]
            /\ UNCHANGED <<hpc, newItems>>
       ELSE /\ http' = settle(http, resp)
            /\ Finish(toolOutput("asana", task))
    /\ UNCHANGED <<env, asanaTool, plannerTool, platform, backend, result, pvars, xvars>>

\* createAsanaTask from the end of moveTaskToSection to its own end
AsanaMoveResponse(resp) ==
    /\ hpc = "tool" /\ call.tool = "asana" /\ call.at = "awaitMove"
    /\ http' = settle(http, resp)
    /\ LET moved == moveTaskToSection(resp) IN
       IF moved.threw
       THEN Finish(toolOutput("asana",
                Throw(wrapError("Failed to create Asana task", moved.error))))
       ELSE Finish(toolOutput("asana", Return("permalink_url")))
    /\ UNCHANGED <<env, asanaTool, plannerTool, platform, backend, result, pvars, xvars>>

\* planner.createTask's execute: getPlannerTool(), then createPlannerTask up to getPlan's fetch
PlannerExecute ==
    /\ hpc = "tool" /\ call.tool = "planner" /\ call.at = "execute"
    /\ LET got == getPlannerTool IN
       IF got.threw
       THEN /\ Finish(toolOutput("planner", got))
            /\ UNCHANGED <<plannerTool, http>>
       ELSE /\ plannerTool' = got.value
            /\ http' = <<[op |-> "planner.getPlan", resp |-> Pending]>>
            /\ call' = [call EXCEPT !.at = "awaitPlan"]
            /\ UNCHANGED <<hpc, newItems>>
    /\ UNCHANGED <<env, asanaTool, platform, backend, result, pvars, xvars>>

\* createPlannerTask from getPlan's response to the creation fetch
PlannerPlanResponse(resp, hasDefaultBucket) ==
    /\ hpc = "tool" /\ call.tool = "planner" /\ call.at = "awaitPlan"
    /\ LET plan == getPlan(resp, hasDefaultBucket)
           taskData == IF plan.threw THEN plan ELSE plannerTaskData(plan.value, call.input)
       IN
       IF taskData.threw
       THEN /\ http' = settle(http, resp)
            /\ Finish(toolOutput("planner",
                   Throw(wrapError("Failed to create Planner task", taskData.error))))
       ELSE /\ http' = Append(settle(http, resp),
                              [op |-> "planner.createTask", resp |-> Pending])
            /\ call' = [call EXCEPT !.at = "awaitCreate"]
            /\ UNCHANGED <<hpc, newItems>>
    /\ UNCHANGED <<env, asanaTool, plannerTool, platform, backend, result, pvars, xvars>>

\* createPlannerTask from the creation response to its next await or its end
PlannerCreateResponse(resp) ==
    /\ hpc = "tool" /\ call.tool = "planner" /\ call.at = "awaitCreate"
    /\ LET task == plannerCreateSettled(resp)
           input == call.input
       IN
       IF task.threw
       THEN /\ http' = settle(http, resp)
            /\ Finish(toolOutput("planner",
                   Throw(wrapError("Failed to create Planner task", task.error))))
       ELSE IF /\ truthy(input.description) \/ (input.links # Null /\ Len(input.links.value) > 0)
               /\ detailsDescription(input) # <<>>
       THEN /\ http' = Append(settle(http, resp),
                              [op |-> "planner.updateDetails", resp |-> Pending])
            /\ call' = [call EXCEPT !.at = "awaitDetails"]
            /\ UNCHANGED <<hpc, newItems>>
       ELSE /\ http' = settle(http, resp)
            /\ Finish(toolOutput("planner", task))
    /\ UNCHANGED <<env, asanaTool, plannerTool, platform, backend, result, pvars, xvars>>

\* createPlannerTask from the end of updateTaskDetails to its own end
PlannerDetailsResponse(resp) ==
    /\ hpc = "tool" /\ call.tool = "planner" /\ call.at = "awaitDetails"
    /\ http' = settle(http, resp)
    /\ LET updated == updateTaskDetails(resp) IN
       IF updated.threw
       THEN Finish(toolOutput("planner",
                Throw(wrapError("Failed to create Planner task", updated.error))))
       ELSE Finish(toolOutput("planner", Return("webUrl")))
    /\ UNCHANGED <<env, asanaTool, plannerTool, platform, backend, result, pvars, xvars>>

\* run(assistant, prompt) resolves: handleTextToTask reads the items and returns
AgentFinishes ==
    /\ hpc = "run"
    /\ result' = handleResult(newItems)
    /\ hpc' = "done"
    /\ UNCHANGED <<env, asanaTool, plannerTool, platform, backend, newItems, call, http, pvars, xvars>>

\* run(assistant, prompt) rejects (the model's API fails, the turn limit is passed):
\* there is no run result, and so no newItems, for handleTextToTask to read
AgentThrows ==
    /\ hpc = "run"
    /\ result' = handleError(Error("agent run failed", 0, "none"))
    /\ hpc' = "done"
    /\ newItems' = <<>>
    /\ UNCHANGED <<env, asanaTool, plannerTool, platform, backend, call, http, pvars, xvars>>

\* the caller has the result; the process takes the next request
NextRequest ==
    /\ hpc = "done"
    /\ hpc' = "idle"
    /\ platform' = "none"
    /\ backend' = "none"
    /\ newItems' = <<>>
    /\ call' = Null
    /\ http' = <<>>
    /\ result' = Null
    /\ UNCHANGED <<env, asanaTool, plannerTool, pvars, xvars>>

Next ==
    \/ \E p \in {"none", "asana", "planner"} : Request(p)
    \/ \E tool \in {"asana", "planner"}, input \in TaskInputs : AgentCallsTool(tool, input)
    \/ ToolInvoke
    \/ AsanaExecute
    \/ \E resp \in Responses : AsanaCreateResponse(resp)
    \/ \E resp \in Responses : AsanaMoveResponse(resp)
    \/ PlannerExecute
    \/ \E resp \in Responses, hasDefaultBucket \in BOOLEAN :
          PlannerPlanResponse(resp, hasDefaultBucket)
    \/ \E resp \in Responses : PlannerCreateResponse(resp)
    \/ \E resp \in Responses : PlannerDetailsResponse(resp)
    \/ AgentFinishes
    \/ AgentThrows
    \/ NextRequest

Spec == Init /\ [][Next]_vars

(***************************************************************************)
(* Vocabulary of the orchestrator claims                                   *)
(***************************************************************************)
CreateOps == {"asana.createTask", "planner.createTask"}

SecondaryOps == {"asana.addTask", "planner.updateDetails"}

BackendOf(op) == IF op \in {"asana.createTask", "asana.addTask"} THEN "asana" ELSE "planner"

TaskUrlOf(tool) == IF tool = "asana" THEN "permalink_url" ELSE "webUrl"

\* the response to request i of the log was a non-2xx HTTP response
NonSuccess(i) == http[i].resp.kind = "http" /\ ~ok(http[i].resp)

\* the latest tool call is over: http is its log, the last item its output
LastCallOver == hpc \in {"run", "done"} /\ call = Null /\ Len(newItems) >= 1

LastOutput == newItems[Len(newItems)].output

\* the item is the output of a call that got as far as the adapter's createTask
AdapterInvoked(item) ==
    /\ item.output.kind = "json"
    /\ item.output.success \/ item.output.error.wrap # ""

\* C1 (as claimed): whenever the task-creation call gets a non-2xx response during
\* handleTextToTask, the result has success = false, names the backend, and has an
\* error field that holds the HTTP status and the response body.
C1_CreationFailureReported ==
    hpc = "done" =>
        \A i \in 1..Len(http) :
            (http[i].op \in CreateOps /\ NonSuccess(i)) =>
                /\ result.success = FALSE
                /\ result.backend = BackendOf(http[i].op)
                /\ result.error # Null
                /\ result.error.status = http[i].resp.status
                /\ result.error.body = "body"

\* C2 (as claimed): the backend in the result is the platform override when one is
\* given and pickBackend() otherwise, and the only adapter whose createTask runs
\* during the call is that backend's.
C2_OnlyChosenBackendUsed ==
    /\ hpc = "done" =>
          result.backend = (IF platform # "none" THEN platform ELSE pickBackend)
    /\ (hpc = "tool" /\ http # <<>>) => call.tool = backend
    /\ hpc = "done" =>
          \A k \in 1..Len(newItems) :
              AdapterInvoked(newItems[k]) => newItems[k].tool = result.backend

\* C2 (as claimed), its first half: the backend in the result is the platform
\* override when one is given and pickBackend() otherwise.
C2_ReportedBackend ==
    hpc = "done" => result.backend = (IF platform # "none" THEN platform ELSE pickBackend)

\* C2 (as claimed), its second half: no adapter other than that of the call's backend
\* (the override, else pickBackend()) issues a request during the call.
C2_OnlyChosenAdapterRuns ==
    (hpc = "tool" /\ http # <<>>) =>
        call.tool = (IF platform # "none" THEN platform ELSE pickBackend)

\* C3: once the creation call has succeeded, a failure of the secondary call (the
\* section move, the details PATCH), be it a non-2xx response or a network error,
\* does not propagate: the tool call still returns the task's URL.
C3_SecondaryFailureSwallowed ==
    (LastCallOver /\ Len(http) >= 2) =>
        LET primary == http[Len(http) - 1]
            secondary == http[Len(http)]
        IN (/\ primary.op \in CreateOps /\ ok(primary.resp) /\ primary.resp.json
            /\ secondary.op \in SecondaryOps /\ ~ok(secondary.resp)) =>
               /\ LastOutput.kind = "json"
               /\ LastOutput.success
               /\ LastOutput.taskUrl = Some(TaskUrlOf(BackendOf(primary.op)))

C3_Witness ==
    /\ LastCallOver /\ Len(http) >= 2
    /\ http[Len(http) - 1].op = "asana.createTask" /\ ok(http[Len(http) - 1].resp)
    /\ http[Len(http)].op = "asana.addTask" /\ http[Len(http)].resp.kind = "neterr"
    /\ LastOutput.taskUrl = Some("permalink_url")

\* C4 (as claimed): when the creation call returns a non-2xx response, whatever its
\* body, createTask fails with an error whose message holds the HTTP status and the
\* response body, and no secondary call follows.
C4_CreationErrorCarriesStatusAndBody ==
    LastCallOver =>
        \A i \in 1..Len(http) :
            (http[i].op \in CreateOps /\ NonSuccess(i)) =>
                /\ LastOutput.kind = "json"
                /\ ~LastOutput.success
                /\ LastOutput.error # Null
                /\ LastOutput.error.status = http[i].resp.status
                /\ LastOutput.error.body = "body"
                /\ i = Len(http)

\* C4, the second half of the claim alone: no secondary call after a failed creation
C4_NoSecondaryAfterFailure ==
    \A i \in 1..Len(http) : (http[i].op \in CreateOps /\ NonSuccess(i)) => i = Len(http)

\* the arguments fail the TaskInput schema: the title is empty, or a field is mistyped
InvalidInput(input) == input.title = "" \/ ~input.typed

\* C5: a validation error never reaches an external API: for arguments whose title
\* is empty or that otherwise fail the TaskInput schema, the tool call ends with no
\* HTTP request issued and an error (no success, no task URL) as its output; and
\* whenever a request has been issued the arguments were valid.
C5_InvalidInputNeverReachesApi ==
    [][/\ (call # Null /\ call.at = "invoke" /\ InvalidInput(call.input)) =>
              /\ call' = Null
              /\ http' = <<>>
              /\ Len(newItems') = Len(newItems) + 1
              /\ ~(newItems'[Len(newItems')].output.kind = "json"
                     /\ newItems'[Len(newItems')].output.success)
              /\ newItems'[Len(newItems')].output.taskUrl = Null
       /\ (call' # Null /\ http' # <<>>) => ~InvalidInput(call'.input)
      ]_vars

\* a call with an empty title has just been turned down
C5_Witness ==
    /\ hpc = "run" /\ call = Null /\ http = <<>>
    /\ Len(newItems) >= 1
    /\ LastOutput.kind = "text"

\* the exceptions raised inside the tool calls of the run: the errors execute caught
ExceptionsCaught ==
    {newItems[k].output.error : k \in {j \in 1..Len(newItems) : newItems[j].output.error # Null}}

\* C12 (as claimed): whatever exception is raised while the pipeline runs (in the
\* agent run, in adapter construction or in the adapter call), handleTextToTask
\* returns a result with success = false that carries that error's message.
C12_ExceptionsBecomeFailureResults ==
    hpc = "done" =>
        /\ result # Null
        /\ \A e \in ExceptionsCaught :
              /\ result.success = FALSE
              /\ result.error # Null
              /\ result.error.text = e.text

\* C12, the part of the claim that holds: when the agent run itself rejects, the
\* result is a failure result carrying that error
C12_RunFailureBecomesFailureResult ==
    (hpc = "done" /\ newItems = <<>> /\ result.error # Null) =>
        /\ result.success = FALSE
        /\ result.taskUrl = Null
        /\ result.error.text = "agent run failed"

\* C13: in every result handleTextToTask returns, after any sequence of tool outputs,
\* taskUrl is non-null exactly when success is true.
C13_TaskUrlIffSuccess ==
    hpc = "done" => ((result.taskUrl # Null) <=> (result.success = TRUE))

\* a result with a task URL, returned after a failed tool call and a successful one
C13_Witness ==
    /\ hpc = "done"
    /\ Len(newItems) = 2
    /\ ~newItems[1].output.success
    /\ newItems[2].output.success
    /\ result.success = TRUE
    /\ result.taskUrl # Null

\* the backend the environment stands for
BackendOfEnv ==
    IF env.ASANA_TOKEN /\ env.ASANA_PROJECT THEN "asana"
    ELSE IF env.GRAPH_TOKEN /\ env.PLANNER_PLAN THEN "planner"
    ELSE "asana"

\* C14: pickBackend returns "asana" when ASANA_TOKEN and ASANA_PROJECT are both
\* present, otherwise "planner" when GRAPH_TOKEN and PLANNER_PLAN are both present,
\* otherwise "asana"; and every call made under the same environment (at the start
\* of a request, in its catch block, in a later request) returns the same backend.
C14_PickBackend ==
    /\ (hpc # "idle" /\ platform = "none") => backend = BackendOfEnv
    /\ (hpc = "done" /\ result.error # Null) => result.backend = BackendOfEnv
    /\ (hpc = "done" /\ result.error # Null /\ platform = "none") => result.backend = backend

\* both calls of one request have chosen Planner, Asana lacking its project
C14_Witness ==
    /\ hpc = "done" /\ platform = "none"
    /\ env.ASANA_TOKEN /\ ~env.ASANA_PROJECT
    /\ backend = "planner"
    /\ result.error # Null
    /\ result.backend = "planner"

\* C16 (as claimed): createPlannerTask queries the plan only when no bucket is
\* configured, so with a configured bucket no plan query is issued and the creation
\* does not hang on one.
C16_PlanQueriedOnlyWithoutBucket ==
    \A i \in 1..Len(http) : http[i].op = "planner.getPlan" => ~plannerTool.bucketId

\* C16, the last part of the claim, which holds: a createPlannerTask that fails for
\* want of a bucket has issued no task-creation call
C16_NoBucketNoCreation ==
    (LastCallOver /\ LastOutput.error # Null
       /\ LastOutput.error.text = "No bucket ID specified and plan has no default bucket") =>
        \A i \in 1..Len(http) : http[i].op # "planner.createTask"

MissingConfiguration ==
    {"Missing required Asana configuration", "Missing required Planner configuration"}

\* C17 (as claimed): a missing required credential is reported when the process
\* builds its adapters, not by a task-creation call: no createTask tool call ends
\* with the missing configuration as its error, and no adapter exists without its
\* token and its project or plan.
C17_MissingCredentialNotReportedByCall ==
    /\ \A k \in 1..Len(newItems) :
          newItems[k].output.error # Null =>
              newItems[k].output.error.text \notin MissingConfiguration
    /\ asanaTool # Null => (asanaTool.token /\ asanaTool.project)
    /\ plannerTool # Null => (plannerTool.token /\ plannerTool.planId)

\* C17, the part of the claim that holds: no adapter instance exists with an empty
\* token or project / plan, and no request is issued without them
C17_NoAdapterWithoutCredentials ==
    /\ asanaTool # Null => (asanaTool.token /\ asanaTool.project)
    /\ plannerTool # Null => (plannerTool.token /\ plannerTool.planId)
    /\ \A i \in 1..Len(http) :
          IF http[i].op \in {"asana.createTask", "asana.addTask"}
          THEN env.ASANA_TOKEN /\ env.ASANA_PROJECT
          ELSE env.GRAPH_TOKEN /\ env.PLANNER_PLAN

\* C19: no retries.  During one createTask call each external request (Asana: create
\* task, add task to section; Planner: get plan, create task, patch details) is
\* issued at most once, whatever the responses; requests go out one after the other;
\* and the secondary request goes out only right after its backend's creation
\* request came back with a success status.
C19_NoRetries ==
    /\ \A i, j \in 1..Len(http) : http[i].op = http[j].op => i = j
    /\ \A i \in 1..(Len(http) - 1) : http[i].resp # Pending
    /\ \A i \in 1..Len(http) :
          http[i].op \in SecondaryOps =>
              /\ i > 1
              /\ http[i - 1].op \in CreateOps
              /\ BackendOf(http[i - 1].op) = BackendOf(http[i].op)
              /\ ok(http[i - 1].resp)

\* a Planner call that sent its three requests once each, the last one failing
C19_Witness ==
    /\ LastCallOver
    /\ Len(http) = 3
    /\ http[1].op = "planner.getPlan"
    /\ http[2].op = "planner.createTask"
    /\ http[3].op = "planner.updateDetails" /\ ~ok(http[3].resp)

(***************************************************************************)
(* TaskInputSchema (parsers, msgraph.ts 216-225) applied to argument       *)
(* objects.  A field of the object is absent (undefined), null, a string   *)
(* (a sequence of characters), an array of strings, or a number.           *)
(***************************************************************************)
Absent == [kind |-> "absent"]

JsonString(chars) == [kind |-> "string", value |-> chars]

JsonArray(items) == [kind |-> "array", value |-> items]

JsonNumber == [kind |-> "number"]

\* z.string().min(1, 'Title is required')
zStringMin1(v) == v.kind = "string" /\ Len(v.value) >= 1

\* z.string().nullable()
zNullableString(v) == v = Null \/ v.kind = "string"

\* z.array(z.string()).nullable()
zNullableStringArray(v) ==
    \/ v = Null
    \/ v.kind = "array" /\ \A k \in 1..Len(v.value) : v.value[k].kind = "string"

\* TaskInputSchema.safeParse(data).success
safeParse(data) ==
    /\ zStringMin1(data.title)
    /\ zNullableString(data.description)
    /\ zNullableString(data.dueDate)
    /\ zNullableString(data.assignee)
    /\ zNullableString(data.project)
    /\ zNullableString(data.section)
    /\ zNullableStringArray(data.links)
    /\ zNullableStringArray(data.attachments)

TitleValues ==
    {Absent, Null, JsonNumber, JsonString(<<>>), JsonString(<<" ">>), JsonString(<<" ", " ">>),
     JsonString(<<"a">>), JsonString(<<" ", "a">>)}

StringValues == {Absent, Null, JsonString(<<"a">>), JsonNumber}

ArrayValues == {Absent, Null, JsonArray(<<JsonString(<<"a">>)>>), JsonArray(<<JsonNumber>>)}

ArgumentObjects ==
    [title : TitleValues, description : StringValues, dueDate : StringValues,
     assignee : StringValues, project : StringValues, section : StringValues,
     links : ArrayValues, attachments : ArrayValues]

InitSchema ==
    /\ ptext \in ArgumentObjects
    /\ pnow = Null
    /\ pout = Null
    /\ pfun = "idle"
    /\ ParserOnly

CallSafeParse ==
    /\ pfun = "idle"
    /\ pout' = [success |-> safeParse(ptext)]
    /\ pfun' = "TaskInputSchema"
    /\ UNCHANGED <<ptext, pnow>>
    /\ UNCHANGED ovars

NextSchema == CallSafeParse

SpecSchema == InitSchema /\ [][NextSchema]_vars

(***************************************************************************)
(* Vocabulary of the schema claim                                          *)
(***************************************************************************)
SchemaDone == pfun = "TaskInputSchema"

\* the title is a string with something left after trimming
TitleNonBlank(data) == data.title.kind = "string" /\ trim(data.title.value) # <<>>

\* every field but the title is absent, null, or a value of the field's type
OthersNullAbsentOrTyped(data) ==
    /\ \A f \in {"description", "dueDate", "assignee", "project", "section"} :
          data[f] \in {Absent, Null} \/ data[f].kind = "string"
    /\ \A f \in {"links", "attachments"} :
          data[f] \in {Absent, Null} \/ (data[f].kind = "array" /\ zNullableStringArray(data[f]))

\* C11 (as claimed): validation accepts an input exactly when its title is non-empty
\* after trimming, the other fields being null, absent or of their type.
C11_AcceptsExactlyNonBlankTitle ==
    (SchemaDone /\ OthersNullAbsentOrTyped(ptext)) => (pout.success <=> TitleNonBlank(ptext))

\* C11 (as claimed), the title alone: with every other field null, a title of white
\* space only is rejected.
C11_BlankTitleRejected ==
    (SchemaDone /\ (\A f \in DOMAIN ptext \ {"title"} : ptext[f] = Null)) =>
        (pout.success => TitleNonBlank(ptext))

\* C11 (as claimed), the other fields alone: with a title that is a non-blank string,
\* a field that is absent does not cause rejection.
C11_AbsentFieldAccepted ==
    (SchemaDone /\ TitleNonBlank(ptext) /\ OthersNullAbsentOrTyped(ptext)) => pout.success

(***************************************************************************)
(* GET /health (webhook, part_002 28-41): the handler reads process.env    *)
(* and answers; it awaits nothing and issues no request.                   *)
(***************************************************************************)
InitHealth ==
    /\ ptext = <<>> /\ pnow = Null /\ pout = Null /\ pfun = "idle"
    /\ env \in Envs
    /\ asanaTool = Null
    /\ plannerTool = Null
    /\ hpc = "idle"
    /\ platform = "none"
    /\ backend = "none"
    /\ newItems = <<>>
    /\ call = Null
    /\ http = <<>>
    /\ result = Null
    /\ invocations = <<>>
    /\ constructed = [asana |-> 0, planner |-> 0]
    /\ health = Null

GetHealth ==
    /\ health = Null
    /\ LET hasAsana == env.ASANA_TOKEN /\ env.ASANA_PROJECT
           hasPlanner == env.GRAPH_TOKEN /\ env.PLANNER_PLAN /\ env.PLANNER_BUCKET
       IN health' = [ok |-> TRUE, asanaConfigured |-> hasAsana,
                     plannerConfigured |-> hasPlanner, requests |-> <<>>]
    /\ UNCHANGED <<env, asanaTool, plannerTool, hpc, platform, backend, newItems, call, http,
                   result, invocations, constructed, pvars>>

NextHealth == GetHealth

SpecHealth == InitHealth /\ [][NextHealth]_vars

\* C15 (as claimed): GET /health performs no external call and reports each backend
\* as configured exactly when its required credentials are present (Asana: token and
\* project; Planner: token and plan, the bucket being optional).
C15_HealthReportsCredentials ==
    health # Null =>
        /\ health.requests = <<>>
        /\ http = <<>>
        /\ health.asanaConfigured <=> (env.ASANA_TOKEN /\ env.ASANA_PROJECT)
        /\ health.plannerConfigured <=> (env.GRAPH_TOKEN /\ env.PLANNER_PLAN)

\* C15 (as claimed), its consequence: the Planner flag agrees with createPlannerTool
\* succeeding, and, Asana lacking its credentials, with pickBackend choosing Planner.
C15_PlannerFlagAgreesWithConstruction ==
    health # Null =>
        /\ health.plannerConfigured <=> ~createPlannerTool.threw
        /\ ~(env.ASANA_TOKEN /\ env.ASANA_PROJECT) =>
              (health.plannerConfigured <=> (pickBackend = "planner"))

\* C15, the parts of the claim that hold: no external call, and the Asana flag
C15_NoCallAndAsanaFlag ==
    health # Null =>
        /\ health.requests = <<>>
        /\ http = <<>>
        /\ health.asanaConfigured <=> ~createAsanaTool.threw

(***************************************************************************)
(* Tool invocations running together (agent.ts 11-79).  JavaScript runs    *)
(* one callback at a time: an execute runs from its start to its first     *)
(* await without interruption, and from each await to the next; other      *)
(* invocations run in between.  getAsanaTool / getPlannerTool hold no      *)
(* await, so the test of the cache, the construction and the assignment    *)
(* fall in one such run.                                                   *)
(***************************************************************************)
MaxInvocations == 3

\* the arguments of the invocations: a title and nothing else
ConcInput ==
    [title |-> "Buy milk", description |-> Null, dueDate |-> Null, links |-> Null,
     typed |-> TRUE]

\* if (!asanaTool) / if (!plannerTool), negated
isCached_Never(tool) == FALSE

isCached(tool) == IF tool = "asana" THEN asanaTool # Null ELSE plannerTool # Null

\* an invocation: its tool, where its execute stands, the adapter instance it got
\* (the how-manieth built for its backend; 0 when it got none) and that instance's
\* config
Invocation(tool, at, adapter, config) ==
    [tool |-> tool, at |-> at, adapter |-> adapter, config |-> config]

\* execute from its start to its first await: the getter, then the adapter's
\* createTask up to its first fetch
ConcExecute(tool) ==
    /\ Len(invocations) < MaxInvocations
    /\ LET cached == IF tool = "asana" THEN asanaTool ELSE plannerTool
           created == IF tool = "asana" THEN createAsanaTool ELSE createPlannerTool
           first == IF tool = "asana" THEN "awaitCreate" ELSE "awaitPlan"
       IN
       IF isCached(tool)
       THEN /\ invocations' =
                  Append(invocations, Invocation(tool, first, constructed[tool], cached))
            /\ UNCHANGED <<asanaTool, plannerTool, constructed>>
       ELSE IF created.threw
       THEN /\ invocations' = Append(invocations, Invocation(tool, "failed", 0, Null))
            /\ UNCHANGED <<asanaTool, plannerTool, constructed>>
       ELSE /\ asanaTool' = IF tool = "asana" THEN created.value ELSE asanaTool
            /\ plannerTool' = IF tool = "planner" THEN created.value ELSE plannerTool
            /\ constructed' = [constructed EXCEPT ![tool] = @ + 1]
            /\ invocations' =
                  Append(invocations,
                         Invocation(tool, first, constructed[tool] + 1, created.value))
    /\ UNCHANGED <<env, hpc, platform, backend, newItems, call, http, result, health, pvars>>

\* where invocation i stands becomes at
ConcMove(i, at) ==
    /\ invocations' = [invocations EXCEPT ![i].at = at]
    /\ UNCHANGED <<env, asanaTool, plannerTool, constructed, hpc, platform, backend, newItems,
                   call, http, result, health, pvars>>

\* createAsanaTask of invocation i resumes with the creation response
ConcAsanaCreateResponse(i, resp) ==
    /\ i \in 1..Len(invocations)
    /\ invocations[i].tool = "asana" /\ invocations[i].at = "awaitCreate"
    /\ LET task == asanaCreateSettled(resp) IN
       IF task.threw THEN ConcMove(i, "failed")
       ELSE IF invocations[i].config.section THEN ConcMove(i, "awaitMove")
       ELSE ConcMove(i, "returned")

\* createAsanaTask of invocation i resumes after moveTaskToSection
ConcAsanaMoveResponse(i, resp) ==
    /\ i \in 1..Len(invocations)
    /\ invocations[i].tool = "asana" /\ invocations[i].at = "awaitMove"
    /\ IF moveTaskToSection(resp).threw THEN ConcMove(i, "failed") ELSE ConcMove(i, "returned")

\* createPlannerTask of invocation i resumes with the plan
ConcPlannerPlanResponse(i, resp, hasDefaultBucket) ==
    /\ i \in 1..Len(invocations)
    /\ invocations[i].tool = "planner" /\ invocations[i].at = "awaitPlan"
    /\ LET plan == getPlan(resp, hasDefaultBucket)
           taskData == IF plan.threw THEN plan ELSE plannerTaskData(plan.value, ConcInput)
       IN IF taskData.threw THEN ConcMove(i, "failed") ELSE ConcMove(i, "awaitCreate")

\* createPlannerTask of invocation i resumes with the creation response; with no
\* description and no links there is no details call
ConcPlannerCreateResponse(i, resp) ==
    /\ i \in 1..Len(invocations)
    /\ invocations[i].tool = "planner" /\ invocations[i].at = "awaitCreate"
    /\ IF plannerCreateSettled(resp).threw THEN ConcMove(i, "failed") ELSE ConcMove(i, "returned")

InitConc ==
    /\ ptext = <<>> /\ pnow = Null /\ pout = Null /\ pfun = "idle"
    /\ env \in Envs
    /\ asanaTool = Null
    /\ plannerTool = Null
    /\ hpc = "idle"
    /\ platform = "none"
    /\ backend = "none"
    /\ newItems = <<>>
    /\ call = Null
    /\ http = <<>>
    /\ result = Null
    /\ invocations = <<>>
    /\ constructed = [asana |-> 0, planner |-> 0]
    /\ health = Null

NextConc ==
    \/ \E tool \in {"asana", "planner"} : ConcExecute(tool)
    \/ \E i \in 1..MaxInvocations, resp \in Responses : ConcAsanaCreateResponse(i, resp)
    \/ \E i \in 1..MaxInvocations, resp \in Responses : ConcAsanaMoveResponse(i, resp)
    \/ \E i \in 1..MaxInvocations, resp \in Responses, hasDefaultBucket \in BOOLEAN :
          ConcPlannerPlanResponse(i, resp, hasDefaultBucket)
    \/ \E i \in 1..MaxInvocations, resp \in Responses : ConcPlannerCreateResponse(i, resp)

SpecConc == InitConc /\ [][NextConc]_vars

(***************************************************************************)
(* Vocabulary of the concurrency claim                                     *)
(***************************************************************************)
\* the invocations of a backend that got an adapter
WithAdapter(tool) ==
    {i \in 1..Len(invocations) : invocations[i].tool = tool /\ invocations[i].adapter # 0}

Awaiting(i) == invocations[i].at \in {"awaitCreate", "awaitMove", "awaitPlan"}

\* the config holds everything its constructor requires
FullyConstructed(tool, config) ==
    IF tool = "asana" THEN config.token /\ config.project ELSE config.token /\ config.planId

\* C18: over every interleaving of concurrent tool invocations, each backend's
\* adapter is constructed at its first use and that instance is the one every later
\* invocation gets: at most one instance per backend is ever constructed, none before
\* a use, and no invocation has a partially constructed adapter in hand.
C18_OneAdapterPerBackend ==
    \A tool \in {"asana", "planner"} :
        /\ constructed[tool] <= 1
        /\ (constructed[tool] = 1) <=> (WithAdapter(tool) # {})
        /\ (constructed[tool] = 1) <=> ((IF tool = "asana" THEN asanaTool ELSE plannerTool) # Null)
        /\ \A i \in WithAdapter(tool) :
              /\ invocations[i].adapter = 1
              /\ invocations[i].config = (IF tool = "asana" THEN asanaTool ELSE plannerTool)
              /\ FullyConstructed(tool, invocations[i].config)

\* three invocations of one backend, two of them in flight together, one instance
C18_Witness ==
    /\ Len(invocations) = 3
    /\ \A i \in 1..3 : invocations[i].tool = "asana" /\ invocations[i].adapter = 1
    /\ Awaiting(1) /\ Awaiting(2)
    /\ constructed.asana = 1

====
